---------------------------- MODULE Spec2Model ----------------------------
(***************************************************************************)
(* A model of gominima/mux: the route table (Routes: Add, Get,             *)
(* matchRoutes, cleanArray) and the router built on it (Router: Register,  *)
(* ServeHTTP, GetParam, UseRouter, Mount).                                 *)
(*                                                                         *)
(* A Go string is a sequence of one-character strings, so that Split,      *)
(* Join, TrimPrefix, HasPrefix, LastIndex and slicing are computed on the  *)
(* characters as the library computes them.  A Go map is a function whose  *)
(* DOMAIN is the set of keys present; a nil map reads like an empty one    *)
(* and is the empty function.  A nil http.Handler is NilHandler.           *)
(***************************************************************************)
EXTENDS Integers, Sequences, FiniteSets, TLC

VARIABLES
    roots,    \* Routes.roots of a table made by NewRoutes(): key -> <<Route>>
    ret,      \* what the last call on that table returned
    routes,   \* Router.routes of each router: method -> Routes.roots
    params,   \* Router.params of each router: the list of Param
    out,      \* what the last call on a router did
    added,    \* history: the Add calls made on the table, in order
    memo      \* history: the first Get call made since the last Add

vars == <<roots, ret, routes, params, out, added, memo>>

\* ------------------------------------------------------------ strings

SLASH == "/"
COLON == ":"

EmptyString == <<>>

EmptyMap == <<>>

NilHandler == "nil"

\* s[from:] of Go, from counted from 0
SliceFrom(s, from) == SubSeq(s, from + 1, Len(s))

\* s[:to] of Go, to counted from 0
SliceTo(s, to) == SubSeq(s, 1, to)

\* strings.HasPrefix(s, prefix)
HasPrefix(s, prefix) ==
    /\ Len(prefix) <= Len(s)
    /\ SubSeq(s, 1, Len(prefix)) = prefix

\* strings.TrimPrefix(s, prefix)
TrimPrefix(s, prefix) ==
    IF HasPrefix(s, prefix) THEN SliceFrom(s, Len(prefix)) ELSE s

\* strings.LastIndex(s, "/"): the 0-based index of the last "/" of s, or -1
LastIndex(s) ==
    LET hits == {i \in 1..Len(s) : s[i] = SLASH}
    IN  IF hits = {} THEN -1
        ELSE (CHOOSE i \in hits : \A j \in hits : j <= i) - 1

RECURSIVE SplitFrom(_, _, _)
\* the components of s from position i on, cur being the component begun
SplitFrom(s, i, cur) ==
    IF i > Len(s) THEN <<cur>>
    ELSE IF s[i] = SLASH THEN <<cur>> \o SplitFrom(s, i + 1, EmptyString)
    ELSE SplitFrom(s, i + 1, Append(cur, s[i]))

\* strings.Split(s, "/"): always at least one component
Split(s) == SplitFrom(s, 1, EmptyString)

RECURSIVE Join(_)
\* strings.Join(parts, "/")
Join(parts) ==
    IF Len(parts) = 0 THEN EmptyString
    ELSE IF Len(parts) = 1 THEN parts[1]
    ELSE parts[1] \o <<SLASH>> \o Join(Tail(parts))

\* ------------------------------------------------------------- Routes

\* param{name, fixed}
param(name, fixed) == [name |-> name, fixed |-> fixed]

\* Route{prefix, partNames, function}
Route(prefix, partNames, function) ==
    [prefix |-> prefix, partNames |-> partNames, function |-> function]

\* NewRoutes(): an empty roots map
NewRoutes == <<>>

\* m[k] = v of a Go map
MapSet(m, k, v) ==
    [x \in DOMAIN m \cup {k} |-> IF x = k THEN v ELSE m[x]]

\* m[k] of a Go map of slices: nil (the empty slice) when k is absent
MapGet(m, k) == IF k \in DOMAIN m THEN m[k] ELSE <<>>

RECURSIVE AddScan(_, _, _, _, _)
\* the loop of Routes.Add over parts[i..]: <<rootParts, varParts>>
AddScan(parts, i, rootParts, varParts, paramsFound) ==
    IF i > Len(parts) THEN <<rootParts, varParts>>
    ELSE LET p == parts[i]
             found == paramsFound \/ HasPrefix(p, <<COLON>>)
         IN  IF found
             THEN IF HasPrefix(p, <<COLON>>)
                  THEN AddScan(parts, i + 1, rootParts,
                           Append(varParts, param(TrimPrefix(p, <<COLON>>), FALSE)),
                           found)
                  ELSE AddScan(parts, i + 1, rootParts,
                           Append(varParts, param(p, TRUE)), found)
             ELSE AddScan(parts, i + 1, Append(rootParts, p), varParts, found)

\* Add with the new Route put before the Routes of its key, not after them
RoutesAdd_Prepend(rts, path, f) ==
    LET scan == AddScan(Split(path), 1, <<>>, <<>>, FALSE)
        root == Join(scan[1])
    IN  MapSet(rts, root, <<Route(root, scan[2], f)>> \o MapGet(rts, root))

\* Routes.Add(path, f): the roots map after the call
RoutesAdd(rts, path, f) ==
    LET scan == AddScan(Split(path), 1, <<>>, <<>>, FALSE)
        root == Join(scan[1])
    IN  MapSet(rts, root, Append(MapGet(rts, root), Route(root, scan[2], f)))

\* cleanArray that drops nothing
cleanArray_KeepAll(a) == a

RECURSIVE cleanArray(_)
\* cleanArray(a): the non-empty strings of a, in order
cleanArray(a) ==
    IF Len(a) = 0 THEN <<>>
    ELSE IF Head(a) # EmptyString THEN <<Head(a)>> \o cleanArray(Tail(a))
    ELSE cleanArray(Tail(a))

\* what Get and matchRoutes return
Result(f, paramNames, found) == [f |-> f, params |-> paramNames, found |-> found]

NotFound == Result(NilHandler, EmptyMap, FALSE)

RECURSIVE BindParts(_, _, _, _)
\* the inner loop of matchRoutes over partNames[i..]: the map built, or
\* "continue outer" at a fixed part that differs
BindParts(partNames, parts, i, paramNames) ==
    IF i > Len(partNames) THEN [ok |-> TRUE, paramNames |-> paramNames]
    ELSE LET p == partNames[i]
         IN  IF p.fixed
             THEN IF parts[i] # p.name
                  THEN [ok |-> FALSE, paramNames |-> EmptyMap]
                  ELSE BindParts(partNames, parts, i + 1, paramNames)
             ELSE BindParts(partNames, parts, i + 1,
                            MapSet(paramNames, p.name, parts[i]))

\* strings.Split(TrimPrefix(TrimPrefix(path, prefix), "/"), "/") of matchRoutes
RestParts(path, prefix) ==
    Split(TrimPrefix(TrimPrefix(path, prefix), <<SLASH>>))

RECURSIVE matchRoutes(_, _)
\* matchRoutes(path, routes)
matchRoutes(path, rs) ==
    IF Len(rs) = 0 THEN NotFound
    ELSE LET r == Head(rs)
             parts == RestParts(path, r.prefix)
             valid == cleanArray(parts)
         IN  IF Len(valid) = Len(r.partNames)
             THEN LET b == BindParts(r.partNames, parts, 1, EmptyMap)
                  IN  IF b.ok THEN Result(r.function, b.paramNames, TRUE)
                      ELSE matchRoutes(path, Tail(rs))
             ELSE matchRoutes(path, Tail(rs))

\* the next value of remaining in the loop of Routes.Get, index >= 0
Truncate(remaining, index) ==
    IF index > 0 THEN SliceTo(remaining, index) ELSE <<SLASH>>

RECURSIVE GetLoop_FallThrough(_, _, _)
\* the loop of Get going on to the shorter prefixes when no entry of a key
\* matches
GetLoop_FallThrough(rts, path, remaining) ==
    IF remaining \in DOMAIN rts /\ matchRoutes(path, rts[remaining]).found
    THEN matchRoutes(path, rts[remaining])
    ELSE IF Len(remaining) < 2 THEN NotFound
    ELSE LET index == LastIndex(remaining)
         IN  IF index < 0 THEN NotFound
             ELSE GetLoop_FallThrough(rts, path, Truncate(remaining, index))

RECURSIVE GetLoop(_, _, _)
\* the loop of Routes.Get
GetLoop(rts, path, remaining) ==
    IF remaining \in DOMAIN rts THEN matchRoutes(path, rts[remaining])
    ELSE IF Len(remaining) < 2 THEN NotFound
    ELSE LET index == LastIndex(remaining)
         IN  IF index < 0 THEN NotFound
             ELSE GetLoop(rts, path, Truncate(remaining, index))

\* Routes.Get(path)
RoutesGet(rts, path) == GetLoop(rts, path, path)

\* Get with a map whose lookup creates the key it does not find
RootsAfterGet_Insert(rts, path) == MapSet(rts, path, MapGet(rts, path))

\* the roots map after Routes.Get(path): Get reads the map and writes nothing
RootsAfterGet(rts, path) == rts


\* ------------------------------------------------------------- Router

\* the keys of Router.routes made by NewRouter()
Methods == {"GET", "POST", "PUT", "DELETE", "PATCH", "OPTIONS", "HEAD"}

\* NewRouter(): one empty table per method, no Param
NewRouter == [m \in Methods |-> NewRoutes]

\* Param{path, param}
Param(path, prm) == [path |-> path, param |-> prm]

\* Router.Register(method, path, handler): Router.routes after the call,
\* unchanged when the method is not a key (the call returns an error)
RegisterIn(rs, method, path, handler) ==
    IF method \notin DOMAIN rs THEN rs
    ELSE [rs EXCEPT ![method] = RoutesAdd(@, path, handler)]

RECURSIVE GetParamFrom(_, _, _, _)
\* the loop of Router.GetParam over r.params[i..]; a key absent from the
\* map of the first Param of that path reads as ""
GetParamFrom(ps, i, path, key) ==
    IF i > Len(ps) THEN EmptyString
    ELSE IF ps[i].path = path
         THEN IF key \in DOMAIN ps[i].param THEN ps[i].param[key]
              ELSE EmptyString
         ELSE GetParamFrom(ps, i + 1, path, key)

\* Router.GetParam(req, key) with req.URL.Path = path
GetParam(ps, path, key) == GetParamFrom(ps, 1, path, key)

RECURSIVE RegisterEach(_, _, _, _, _)
\* the innermost loop of UseRouter and Mount: Register(t, path, function)
\* for every Route of vl from the i-th on
RegisterEach(rs, t, path, vl, i) ==
    IF i > Len(vl) THEN rs
    ELSE RegisterEach(RegisterIn(rs, t, path, vl[i].function), t, path, vl, i + 1)

RECURSIVE RegisterKeys(_, _, _, _, _, _)
\* the loop of UseRouter and Mount over the keys of one table of the other
\* router, taken in the order ks: each key, after prefix, is registered as
\* the path of every Route stored under it
RegisterKeys(rs, t, prefix, v, ks, i) ==
    IF i > Len(ks) THEN rs
    ELSE RegisterKeys(RegisterEach(rs, t, prefix \o ks[i], v[ks[i]], 1),
                      t, prefix, v, ks, i + 1)

\* the orders in which a range loop may visit the keys S of a map
Orders(S) ==
    {o \in [1..Cardinality(S) -> S] : \A i, j \in DOMAIN o : o[i] = o[j] => i = j}

RECURSIVE Mounted(_, _, _, _)
\* Router.routes after the loops of UseRouter (prefix "") and Mount over the
\* methods ts of the other router, whatever the order of the range loops
Mounted(rs, prefix, other, ts) ==
    IF ts = {} THEN {rs}
    ELSE LET t == CHOOSE x \in ts : TRUE
         IN  UNION { Mounted(RegisterKeys(rs, t, prefix, other[t], ks, 1),
                             prefix, other, ts \ {t}) :
                     ks \in Orders(DOMAIN other[t]) }

\* ------------------------------------------------- inputs and bounds

\* the most Add calls made on one table
MaxAdds == 2

\* the most components of a pattern registered alone
MaxPatComps == 3

\* the most components of a path looked up in a table with several patterns
MaxTablePathComps == 3

\* the most routes registered on the routers
MaxRoutes == 2

\* the most requests served by a router
MaxReqs == 2

E == EmptyString
A == <<"a">>
B == <<"b">>
PX == <<COLON, "x">>
PY == <<COLON, "y">>

Handlers == {"h1", "h2"}

\* the non-empty sequences over S of at most n elements
SeqsUpTo(S, n) == UNION {[1..k -> S] : k \in 1..n}

\* component lists of patterns: literals, parameters and empty components
PatternComps == SeqsUpTo({E, A, PX, PY}, MaxPatComps)

\* component lists of request paths: values, literals and empty components,
\* up to one component more than the longest pattern
PathComps == SeqsUpTo({E, A, B}, MaxPatComps + 1)

TablePathComps == SeqsUpTo({E, A, B}, MaxTablePathComps)

\* the patterns registered together: "", "/", "/a", "/a/", "/a/b", "/:x",
\* "/a/:x", "/a/:y", "/a/:x/b", "/a/:x/:y", "/a/b/:x", "//:x", "a/:x"
TablePatternComps ==
    { <<E>>, <<E, E>>, <<E, A>>, <<E, A, E>>, <<E, A, B>>, <<E, PX>>,
      <<E, A, PX>>, <<E, A, PY>>, <<E, A, PX, B>>, <<E, A, PX, PY>>,
      <<E, A, B, PX>>, <<E, E, PX>>, <<A, PX>> }

\* patterns and paths of the lookups that are repeated: "/", "/a", "/a/:x",
\* "/a/b/:x", "/a/:x/b" and "", "/", "/a", "/a/", "/a/b", "/a/b/", "/a/b/b",
\* "/b"
RepeatPatternComps ==
    { <<E, E>>, <<E, A>>, <<E, A, PX>>, <<E, A, B, PX>>, <<E, A, PX, B>> }

RepeatPathComps ==
    { <<E>>, <<E, E>>, <<E, A>>, <<E, A, E>>, <<E, A, B>>, <<E, A, B, E>>,
      <<E, A, B, B>>, <<E, B>> }

\* ------------------------------------------- a table used on its own

NoCall == [op |-> "none", comps |-> <<E>>, path |-> E, f |-> NilHandler,
           params |-> EmptyMap, found |-> FALSE]

\* the record of a call Add(path, f), which returns nothing
AddCall(comps, path, f) ==
    [op |-> "Add", comps |-> comps, path |-> path, f |-> f,
     params |-> EmptyMap, found |-> FALSE]

\* the record of a call Get(path) and of what it returned
GetCall(comps, path, res) ==
    [op |-> "Get", comps |-> comps, path |-> path, f |-> res.f,
     params |-> res.params, found |-> res.found]

\* no Get call made since the last Add; others: a Get call on another
\* path was made since the call remembered
NoMemo == [call |-> NoCall, others |-> FALSE]

\* the result held by the record of a Get call
ResultOf(call) == Result(call.f, call.params, call.found)

\* the router that serves and the router that is mounted on it
Routers == {"r", "sub"}

\* request methods: two of the router's and one that is not
ReqMethods == {"GET", "POST", "TRACE"}

\* "/a", "/a/:x", "/a/:y"
RouterPatterns == {Join(<<E, A>>), Join(<<E, A, PX>>), Join(<<E, A, PY>>)}

\* "/a", "/a/a", "/a/b"
RouterPaths == {Join(<<E, A>>), Join(<<E, A, A>>), Join(<<E, A, B>>)}

\* "/b"
MountPrefixes == {Join(<<E, B>>)}

NoOut == [op |-> "none"]

RouterInit ==
    /\ routes = [rt \in Routers |-> NewRouter]
    /\ params = [rt \in Routers |-> <<>>]
    /\ out = NoOut

TableInit ==
    /\ roots = NewRoutes
    /\ ret = NoCall
    /\ added = <<>>
    /\ memo = NoMemo
    /\ RouterInit

\* r.Add(path, f) with path = Join(comps)
AddOf(comps, f) ==
    /\ Len(added) < MaxAdds
    /\ roots' = RoutesAdd(roots, Join(comps), f)
    /\ ret' = AddCall(comps, Join(comps), f)
    /\ added' = Append(added, [comps |-> comps, f |-> f])
    /\ memo' = NoMemo
    /\ UNCHANGED <<routes, params, out>>

\* r.Get(path) with path = Join(comps)
GetOf(comps) ==
    /\ ret' = GetCall(comps, Join(comps), RoutesGet(roots, Join(comps)))
    /\ roots' = RootsAfterGet(roots, Join(comps))
    /\ UNCHANGED <<routes, params, out, added>>

\* one pattern registered alone, then one lookup
AddOne == \E comps \in PatternComps, f \in Handlers :
              Len(added) = 0 /\ AddOf(comps, f)

GetOne == \E comps \in PathComps :
              ret.op = "Add" /\ GetOf(comps) /\ UNCHANGED memo

NextOne == AddOne \/ GetOne

SpecOne == TableInit /\ [][NextOne]_vars

\* any sequence of Add calls, with a lookup after any of them
Add == \E comps \in TablePatternComps, f \in Handlers : AddOf(comps, f)

Get == \E comps \in TablePathComps :
           ret.op # "Get" /\ GetOf(comps) /\ UNCHANGED memo

NextTable == Add \/ Get

SpecTable == TableInit /\ [][NextTable]_vars

\* lookups repeated on one table, the first one since the last Add remembered
AddSome == \E comps \in RepeatPatternComps, f \in Handlers : AddOf(comps, f)

GetAgain == \E comps \in RepeatPathComps :
                /\ GetOf(comps)
                /\ memo' = IF memo.call.op # "Get"
                           THEN [call |-> ret', others |-> FALSE]
                           ELSE [memo EXCEPT
                                    !.others = @ \/ ret'.path # memo.call.path]

NextRepeat == AddSome \/ GetAgain

SpecRepeat == TableInit /\ [][NextRepeat]_vars

\* --------------------------------------------------------- the router

Init == TableInit

RECURSIVE SumLens(_, _)
SumLens(rts, ks) ==
    IF ks = {} THEN 0
    ELSE LET k == CHOOSE x \in ks : TRUE
         IN  Len(rts[k]) + SumLens(rts, ks \ {k})

RECURSIVE SumTables(_, _)
SumTables(rs, ts) ==
    IF ts = {} THEN 0
    ELSE LET t == CHOOSE x \in ts : TRUE
         IN  SumLens(rs[t], DOMAIN rs[t]) + SumTables(rs, ts \ {t})

\* the number of routes a router holds
NumRoutes(rs) == SumTables(rs, DOMAIN rs)

\* rt.Register(method, path, handler), which rt.Get, rt.Post, ... call
Register ==
    \E rt \in Routers, method \in ReqMethods, path \in RouterPatterns,
       handler \in Handlers :
        /\ NumRoutes(routes["r"]) + NumRoutes(routes["sub"]) < MaxRoutes
        /\ routes' = [routes EXCEPT ![rt] = RegisterIn(@, method, path, handler)]
        /\ out' = [op |-> "Register", rt |-> rt, method |-> method,
                   path |-> path, err |-> method \notin DOMAIN routes[rt]]
        /\ UNCHANGED <<params, roots, ret, added, memo>>

\* r.ServeHTTP(w, req) with req.Method = method and req.URL.Path = path;
\* formOK: req.ParseForm() returns no error.  The handler run is one that
\* calls GetParam(req, key) for every parameter name of its pattern.
ServeHTTP ==
    \E method \in ReqMethods, path \in RouterPaths, formOK \in BOOLEAN :
        /\ Len(params["r"]) < MaxReqs
        /\ IF method \notin DOMAIN routes["r"]
           THEN \* r.routes[req.Method] is a nil *Routes: Get dereferences it
                /\ out' = [op |-> "ServeHTTP", method |-> method, path |-> path,
                           status |-> "panic"]
                /\ UNCHANGED params
           ELSE LET res == RoutesGet(routes["r"][method], path)
                    ps == Append(params["r"], Param(path, res.params))
                IN  /\ params' = [params EXCEPT !["r"] = ps]
                    /\ out' =
                         IF ~res.found
                         THEN [op |-> "ServeHTTP", method |-> method,
                               path |-> path, status |-> "notfound"]
                         ELSE IF ~formOK
                         THEN [op |-> "ServeHTTP", method |-> method,
                               path |-> path, status |-> "formerror"]
                         ELSE [op |-> "ServeHTTP", method |-> method,
                               path |-> path, status |-> "handled",
                               f |-> res.f, bound |-> res.params,
                               seen |-> [key \in DOMAIN res.params |->
                                            GetParam(ps, path, key)]]
        /\ UNCHANGED <<routes, roots, ret, added, memo>>

\* r.UseRouter(sub)
UseRouter ==
    /\ NumRoutes(routes["r"]) + NumRoutes(routes["sub"]) <= MaxRoutes
    /\ \E rs \in Mounted(routes["r"], EmptyString, routes["sub"], DOMAIN routes["sub"]) :
          routes' = [routes EXCEPT !["r"] = rs]
    /\ out' = [op |-> "UseRouter", fresh |-> NumRoutes(routes["r"]) = 0,
               path |-> EmptyString]
    /\ UNCHANGED <<params, roots, ret, added, memo>>

\* r.Mount(path, sub)
Mount ==
    \E path \in MountPrefixes :
        /\ NumRoutes(routes["r"]) + NumRoutes(routes["sub"]) <= MaxRoutes
        /\ \E rs \in Mounted(routes["r"], path, routes["sub"], DOMAIN routes["sub"]) :
              routes' = [routes EXCEPT !["r"] = rs]
        /\ out' = [op |-> "Mount", fresh |-> NumRoutes(routes["r"]) = 0,
                   path |-> path]
        /\ UNCHANGED <<params, roots, ret, added, memo>>

Next == Register \/ ServeHTTP \/ UseRouter \/ Mount

Spec == Init /\ [][Next]_vars

\* ------------------------------------------ patterns, paths, prefixes

\* a component of a pattern that names a parameter
IsParamComp(c) == Len(c) >= 1 /\ c[1] = COLON

ParamPositions(cs) == {i \in 1..Len(cs) : IsParamComp(cs[i])}

\* the mapping from each parameter name of pattern cs to the component of
\* path ps at its position
Substituted(cs, ps) ==
    [n \in {Tail(cs[i]) : i \in ParamPositions(cs)} |->
        ps[CHOOSE i \in ParamPositions(cs) : Tail(cs[i]) = n]]

\* cs: non-empty components each preceded by "/", at least one of them a
\* parameter, the parameter names pairwise distinct
IsParamPattern(cs) ==
    /\ Len(cs) >= 2
    /\ cs[1] = E
    /\ \A i \in 2..Len(cs) : cs[i] # E
    /\ ParamPositions(cs) # {}
    /\ \A i, j \in ParamPositions(cs) : cs[i] = cs[j] => i = j

\* ps is cs with every parameter component replaced by a non-empty value
IsInstance(cs, ps) ==
    /\ Len(ps) = Len(cs)
    /\ \A i \in 1..Len(cs) :
          IF IsParamComp(cs[i]) THEN ps[i] # E ELSE ps[i] = cs[i]

\* ps is cs followed by n >= 1 empty components: the path is the pattern
\* followed by n "/" characters
IsSlashed(cs, ps) ==
    /\ Len(ps) > Len(cs)
    /\ SubSeq(ps, 1, Len(cs)) = cs
    /\ \A i \in (Len(cs) + 1)..Len(ps) : ps[i] = E

\* the k-th shortest candidate key of the path with components ps: the path
\* cut before the "/" that follows its k-th component, "/" when that "/" is
\* at position 0
Candidate(ps, k) ==
    IF k = 1 /\ Len(ps) >= 2 /\ ps[1] = E THEN <<SLASH>>
    ELSE Join(SubSeq(ps, 1, k))

\* the candidates of ps that are keys of the table
KeyCandidates(rts, ps) == {k \in 1..Len(ps) : Candidate(ps, k) \in DOMAIN rts}

\* the first candidate that is a key: the longest one
FirstKey(rts, ps) ==
    Candidate(ps, CHOOSE k \in KeyCandidates(rts, ps) :
                      \A j \in KeyCandidates(rts, ps) : j <= k)

\* the Route that the Add call a stored
RouteOf(a) ==
    LET rts == RoutesAdd(NewRoutes, Join(a.comps), a.f)
    IN  rts[CHOOSE k \in DOMAIN rts : TRUE][1]

\* the Add calls, by their place in the history, whose Route is stored
\* under key and satisfies the segment checks for path
Matching(path, key) ==
    {i \in 1..Len(added) :
        /\ RouteOf(added[i]).prefix = key
        /\ matchRoutes(path, <<RouteOf(added[i])>>).found}

\* what the entry registered earliest among those of key that match path
\* returns
EarliestMatch(path, key) ==
    matchRoutes(path,
        <<RouteOf(added[CHOOSE i \in Matching(path, key) :
                            \A j \in Matching(path, key) : i <= j])>>)

\* ------------------------------------------------------------- claims

\* C1: a pattern of non-empty components with distinct parameters, the
\* only one registered, and a path that instantiates it: Get finds the
\* registered handler and maps each parameter name to the value at its
\* position.
C1_RoundTrip ==
    (/\ ret.op = "Get"
     /\ IsParamPattern(added[1].comps)
     /\ IsInstance(added[1].comps, ret.comps))
    => /\ ret.found
       /\ ret.f = added[1].f
       /\ ret.params = Substituted(added[1].comps, ret.comps)

\* C2 as stated: a pattern without parameters, the only one registered,
\* is found with no parameters at the path equal to it, and no other path
\* is found, a path of the pattern followed by "/" characters included.
C2_OnlyItself ==
    (ret.op = "Get" /\ ParamPositions(added[1].comps) = {})
    => IF ret.comps = added[1].comps
       THEN ResultOf(ret) = Result(added[1].f, EmptyMap, TRUE)
       ELSE ~ret.found

\* C2 amended: a pattern without parameters, the only one registered, is
\* found with no parameters at the path equal to it and, when it is not
\* the empty pattern, at the paths that follow it with "/" characters; no
\* other path is found.
C2_ItselfAndSlashes ==
    (ret.op = "Get" /\ ParamPositions(added[1].comps) = {})
    => IF \/ ret.comps = added[1].comps
          \/ added[1].comps # <<E>> /\ IsSlashed(added[1].comps, ret.comps)
       THEN ResultOf(ret) = Result(added[1].f, EmptyMap, TRUE)
       ELSE ResultOf(ret) = NotFound

\* C2: a pattern without parameters was registered alone and the lookup
\* of the pattern followed by "/" found it.
C2_Witness ==
    /\ ret.op = "Get"
    /\ ParamPositions(added[1].comps) = {}
    /\ IsSlashed(added[1].comps, ret.comps)
    /\ ret.found

\* C3: Get returns what matching the path against the entries of its first
\* candidate that is a key returns, and not found when no candidate is a
\* key; no shorter candidate is consulted.
C3_FirstKeyDecides ==
    ret.op = "Get"
    => ResultOf(ret) =
          IF KeyCandidates(roots, ret.comps) = {} THEN NotFound
          ELSE matchRoutes(ret.path, roots[FirstKey(roots, ret.comps)])

\* C3: a lookup was not found because no entry of its first key matches,
\* while an entry under a shorter candidate key matches the path.
C3_Witness ==
    /\ ret.op = "Get"
    /\ ~ret.found
    /\ \E k \in KeyCandidates(roots, ret.comps) :
          /\ Candidate(ret.comps, k) # FirstKey(roots, ret.comps)
          /\ matchRoutes(ret.path, roots[Candidate(ret.comps, k)]).found

\* C4 as stated: whenever entries stored under one static prefix of the
\* path satisfy the segment checks, Get returns the handler and parameters
\* of the one registered earliest.
C4_EarliestUnderAnyPrefix ==
    ret.op = "Get"
    => \A k \in KeyCandidates(roots, ret.comps) :
          Matching(ret.path, Candidate(ret.comps, k)) # {}
          => ResultOf(ret) = EarliestMatch(ret.path, Candidate(ret.comps, k))

\* a lookup returned the entry registered earliest among those of its
\* first key that match
EarliestUnderFirstKey ==
    (/\ ret.op = "Get"
     /\ KeyCandidates(roots, ret.comps) # {}
     /\ Matching(ret.path, FirstKey(roots, ret.comps)) # {})
    => ResultOf(ret) = EarliestMatch(ret.path, FirstKey(roots, ret.comps))

\* an Add under the first key of the path just looked up, which an entry
\* of that key matches, leaves the result for the path as it was returned
LaterAddKeepsResult ==
    (/\ ret.op = "Get"
     /\ ret'.op = "Add"
     /\ KeyCandidates(roots, ret.comps) # {}
     /\ roots'[FirstKey(roots, ret.comps)] # roots[FirstKey(roots, ret.comps)]
     /\ Matching(ret.path, FirstKey(roots, ret.comps)) # {})
    => RoutesGet(roots', ret.path) = ResultOf(ret)

\* C4 amended: when entries stored under the static prefix that Get
\* selects for a path (its first candidate that is a key) satisfy the
\* segment checks, Get returns the one registered earliest, and a later
\* registration under that prefix never changes the result.
C4_FirstRegisteredWins == []EarliestUnderFirstKey /\ [][LaterAddKeepsResult]_vars

\* C4: a lookup returned the earlier of two entries of its first key that
\* both match the path, registered with different handlers.
C4_Witness ==
    /\ ret.op = "Get"
    /\ KeyCandidates(roots, ret.comps) # {}
    /\ Cardinality(Matching(ret.path, FirstKey(roots, ret.comps))) = 2
    /\ added[1].f # added[2].f
    /\ ret.f = added[1].f

\* C6: Get("") returns what Get("/") returns, in every table.
C6_EmptyLikeSlash == RoutesGet(roots, E) = RoutesGet(roots, <<SLASH>>)

\* the entries of es whose segments agree with the non-empty components
\* of the rest of the path
MatchingClean(path, es) ==
    {i \in 1..Len(es) :
        LET parts == cleanArray(RestParts(path, es[i].prefix))
        IN  /\ Len(parts) = Len(es[i].partNames)
            /\ \A j \in 1..Len(parts) :
                  es[i].partNames[j].fixed => parts[j] = es[i].partNames[j].name}

\* the parameters of entry r bound to the non-empty components
BoundClean(path, r) ==
    LET parts == cleanArray(RestParts(path, r.prefix))
        vs == {j \in 1..Len(r.partNames) : ~r.partNames[j].fixed}
    IN  [n \in {r.partNames[j].name : j \in vs} |->
            parts[CHOOSE j \in vs :
                     /\ r.partNames[j].name = n
                     /\ \A l \in vs : r.partNames[l].name = n => l <= j]]

\* C10: the entries of the key are matched on the non-empty components of
\* the rest of the path: the first entry whose segment count and literals
\* agree with them is returned, its parameters bound to the non-empty
\* component at their position.
C10_NonEmptyComponents ==
    (ret.op = "Get" /\ KeyCandidates(roots, ret.comps) # {})
    => LET es == roots[FirstKey(roots, ret.comps)]
           m == MatchingClean(ret.path, es)
       IN  ResultOf(ret) =
              IF m = {} THEN NotFound
              ELSE LET i == CHOOSE i \in m : \A j \in m : i <= j
                   IN  Result(es[i].function, BoundClean(ret.path, es[i]), TRUE)

\* C5: a lookup made for a request, whatever its method and path, ends in
\* the handler or in the not-found response, never in a crash.
C5_LookupNeverFails == out.op = "ServeHTTP" => out.status # "panic"

\* C7: the handler of a matched request gets from GetParam, for every
\* parameter name of its pattern, the value its own match bound to it.
C7_OwnBinding ==
    (out.op = "ServeHTTP" /\ out.status = "handled")
    => \A key \in DOMAIN out.bound : out.seen[key] = out.bound[key]

\* C8: after r.UseRouter(sub), or r.Mount(p, sub), on a router r that held
\* no routes, r resolves every path (after p) of every method as sub does.
C8_CarriesRoutesOver ==
    (out.op \in {"UseRouter", "Mount"} /\ out.fresh)
    => \A t \in Methods, path \in RouterPaths :
          RoutesGet(routes["r"][t], out.path \o path)
             = RoutesGet(routes["sub"][t], path)

\* a Get call repeated since the last Add returned what the first call on
\* its path returned
RepeatedGetSame ==
    (ret.op = "Get" /\ memo.call.op = "Get" /\ ret.path = memo.call.path)
    => ResultOf(ret) = ResultOf(memo.call)

\* a Get call leaves every key and every entry list as it was
GetKeepsRoots == ret'.op = "Get" => roots' = roots

=============================================================================
